---- MODULE Spec2Model ----
(***************************************************************************)
(* Model of the multi-category blocklist of ut1-rs                         *)
(* (src/src/blocklist_multi.rs): the normalizers, the two indices built by *)
(* Blocklist::new or Blocklist::from_dir, detect_subdomains and detect.    *)
(*                                                                         *)
(* Strings are sequences of one-character strings, so that slicing,        *)
(* prefixing "https://" and parsing are computed and not assumed.          *)
(***************************************************************************)
EXTENDS Integers, Sequences, FiniteSets, TLC

(***************************************************************************)
(* Characters and small string helpers.                                    *)
(***************************************************************************)
LowerCase ==
    {"a","b","c","d","e","f","g","h","i","j","k","l","m",
     "n","o","p","q","r","s","t","u","v","w","x","y","z"}

UpperCase == {"A","B","C"}

Digits == {"0","1","2","3","4","5","6","7","8","9"}

Alpha == LowerCase \cup UpperCase

\* url::parser: a scheme is an ASCII letter followed by letters, digits, + - .
SchemeChars == Alpha \cup Digits \cup {"+", "-", "."}

\* characters a host of a special scheme may hold once lower-cased
HostChars == LowerCase \cup Digits \cup {"-", "."}

Lower(c) ==
    CASE c = "A" -> "a"
      [] c = "B" -> "b"
      [] c = "C" -> "c"
      [] OTHER -> c

ToLower(s) == [i \in 1..Len(s) |-> Lower(s[i])]

Range(s) == {s[i] : i \in 1..Len(s)}

Min(S) == CHOOSE x \in S : \A y \in S : x <= y

Max(S) == CHOOSE x \in S : \A y \in S : x >= y

\* index of the first character of s that is in cs, Len(s)+1 when there is none
FirstIn(s, cs) ==
    LET hits == {i \in 1..Len(s) : s[i] \in cs}
    IN  IF hits = {} THEN Len(s) + 1 ELSE Min(hits)

\* index of the first character of s that is not in cs, Len(s)+1 when there is none
FirstNotIn(s, cs) ==
    LET hits == {i \in 1..Len(s) : s[i] \notin cs}
    IN  IF hits = {} THEN Len(s) + 1 ELSE Min(hits)

\* s[from..] (1-based), the empty string when from is past the end
From(s, from) == SubSeq(s, from, Len(s))

\* s[..to]
UpTo(s, to) == SubSeq(s, 1, to)

(***************************************************************************)
(* Results and options.                                                    *)
(***************************************************************************)
Ok(v) == [ok |-> TRUE, val |-> v, err |-> "none"]

Err(e) == [ok |-> FALSE, val |-> <<>>, err |-> e]

None == [some |-> FALSE, val |-> {}]

Some(v) == [some |-> TRUE, val |-> v]

(***************************************************************************)
(* The URL parser the normalizers call (Url::parse, no base URL), for      *)
(* inputs without whitespace, backslashes, percent signs, dot segments,    *)
(* IP literals and "file:".                                                *)
(***************************************************************************)
sHttps == <<"h","t","t","p","s">>

sHttp == <<"h","t","t","p">>

sWs == <<"w","s">>

sWss == <<"w","s","s">>

sFtp == <<"f","t","p">>

SpecialSchemes == {sHttps, sHttp, sWs, sWss, sFtp}

DefaultPort(scheme) ==
    CASE scheme = sHttps -> <<"4","4","3">>
      [] scheme = sWss -> <<"4","4","3">>
      [] scheme = sHttp -> <<"8","0">>
      [] scheme = sWs -> <<"8","0">>
      [] scheme = sFtp -> <<"2","1">>
      [] OTHER -> <<>>

ParseFailed ==
    [ok |-> FALSE, scheme |-> <<>>, hasHost |-> FALSE, userinfo |-> <<>>,
     host |-> <<>>, port |-> <<>>, path |-> <<>>,
     hasQuery |-> FALSE, query |-> <<>>, hasFragment |-> FALSE, fragment |-> <<>>]

\* index of the ':' that ends the scheme, 0 when the input starts with no scheme
SchemeColon(s, j) == IF j <= Len(s) /\ s[j] = ":" THEN j ELSE 0

SchemeEnd(s) ==
    IF s = <<>> \/ s[1] \notin Alpha
    THEN 0
    ELSE SchemeColon(s, FirstNotIn(s, SchemeChars))

\* the input from its first non-slash character on
SkipSlashes(s) == From(s, FirstNotIn(s, {"/"}))

\* the [?query][#fragment] tail of a URL: t is empty or starts at '?' or '#'
QueryAt(t, h) ==
    [hasQuery |-> (h > 1),
     query |-> SubSeq(t, 2, h - 1),
     hasFragment |-> (h <= Len(t)),
     fragment |-> From(t, h + 1)]

QueryFragment(t) == QueryAt(t, FirstIn(t, {"#"}))

\* userinfo@host:port, the userinfo ending at the last '@'
HostPort(hostport, colon) ==
    [host |-> UpTo(hostport, colon - 1), port |-> From(hostport, colon + 1)]

AuthorityAt(a, at) ==
    [userinfo |-> UpTo(a, at - 1),
     hostport |-> HostPort(From(a, at + 1), FirstIn(From(a, at + 1), {":"}))]

Authority(a) ==
    AuthorityAt(a, IF "@" \in Range(a) THEN Max({i \in 1..Len(a) : a[i] = "@"}) ELSE 0)

\* the path and what follows it: the path of a special scheme is never empty
PathAt(special, tail, pathEnd) ==
    [path |-> IF special /\ pathEnd = 1 THEN <<"/">> ELSE UpTo(tail, pathEnd - 1),
     qf |-> QueryFragment(From(tail, pathEnd))]

PathQueryFragment(special, tail) == PathAt(special, tail, FirstIn(tail, {"?", "#"}))

Assemble(scheme, hasHost, userinfo, host, port, pqf) ==
    [ok |-> TRUE, scheme |-> scheme, hasHost |-> hasHost, userinfo |-> userinfo,
     host |-> host, port |-> port, path |-> pqf.path,
     hasQuery |-> pqf.qf.hasQuery, query |-> pqf.qf.query,
     hasFragment |-> pqf.qf.hasFragment, fragment |-> pqf.qf.fragment]

\* a URL with an authority: the host of a special scheme is lower-cased, must not
\* be empty and must hold host characters only; a default port is dropped
WithAuthority(scheme, special, auth, host, tail) ==
    IF special /\ host = <<>> THEN ParseFailed
    ELSE IF special /\ Range(host) \ HostChars # {} THEN ParseFailed
    ELSE IF Range(auth.hostport.port) \ Digits # {} THEN ParseFailed
    ELSE Assemble(scheme, host # <<>>, auth.userinfo, host,
                  IF auth.hostport.port = DefaultPort(scheme) THEN <<>> ELSE auth.hostport.port,
                  PathQueryFragment(special, tail))

AuthorityThenPath(scheme, special, auth, tail) ==
    WithAuthority(scheme, special, auth,
                  IF special THEN ToLower(auth.hostport.host) ELSE auth.hostport.host,
                  tail)

SplitAuthority(scheme, special, body, authEnd) ==
    AuthorityThenPath(scheme, special, Authority(UpTo(body, authEnd - 1)), From(body, authEnd))

\* a URL without authority: no host, the rest is the path
NoAuthority(scheme, rest) ==
    Assemble(scheme, FALSE, <<>>, <<>>, <<>>, PathQueryFragment(FALSE, rest))

AfterScheme(scheme, rest) ==
    IF scheme \in SpecialSchemes
    THEN SplitAuthority(scheme, TRUE, SkipSlashes(rest),
                        FirstIn(SkipSlashes(rest), {"/", "?", "#"}))
    ELSE IF Len(rest) >= 2 /\ rest[1] = "/" /\ rest[2] = "/"
    THEN SplitAuthority(scheme, FALSE, From(rest, 3), FirstIn(From(rest, 3), {"/", "?", "#"}))
    ELSE NoAuthority(scheme, rest)

ParseFrom(s, se) ==
    IF se = 0 THEN ParseFailed
    ELSE AfterScheme(ToLower(UpTo(s, se - 1)), From(s, se + 1))

\* Url::parse
UrlParse(s) == ParseFrom(s, SchemeEnd(s))

\* the serialization of a parsed URL from Position::BeforeScheme to Position::AfterPath
ThroughPath(u) ==
    u.scheme \o <<":">>
    \o (IF u.hasHost \/ u.scheme \in SpecialSchemes
        THEN <<"/", "/">>
             \o (IF u.userinfo = <<>> THEN <<>> ELSE u.userinfo \o <<"@">>)
             \o u.host
             \o (IF u.port = <<>> THEN <<>> ELSE <<":">> \o u.port)
        ELSE <<>>)
    \o u.path

\* the whole serialization of a parsed URL: what Url compares and hashes by
Serialization(u) ==
    ThroughPath(u)
    \o (IF u.hasQuery THEN <<"?">> \o u.query ELSE <<>>)
    \o (IF u.hasFragment THEN <<"#">> \o u.fragment ELSE <<>>)

(***************************************************************************)
(* The normalizers.                                                        *)
(***************************************************************************)
HttpsPrefix == <<"h","t","t","p","s",":","/","/">>

\* or_else: the first parse when it succeeded, else the parse of "https://" + url
OrElseHttps(asIs, url) == IF asIs.ok THEN asIs ELSE UrlParse(HttpsPrefix \o url)

\* Blocklist::normalize
normalize(url) == OrElseHttps(UrlParse(url), url)

\* Ok(Url::parse(url)?), a Url being represented by its serialization
Reparsed(again) == IF again.ok THEN Ok(Serialization(again)) ELSE Err("MalformedUrl")

\* the whole Url kept, query and fragment included
SliceToEndAndReparse(u) ==
    IF ~u.ok THEN Err("MalformedUrl") ELSE Reparsed(UrlParse(Serialization(u)))

\* the slice scheme..path of the parsed Url, parsed again
SliceAndReparse(u) == IF ~u.ok THEN Err("MalformedUrl") ELSE Reparsed(UrlParse(ThroughPath(u)))

\* Blocklist::normalize_url
normalize_url(url) == SliceAndReparse(normalize(url))

\* url.host_str() or NoHostname
HostStr(u) ==
    IF ~u.ok THEN Err("MalformedUrl")
    ELSE IF u.hasHost THEN Ok(u.host)
    ELSE Err("NoHostname")

\* Blocklist::normalize_domain
normalize_domain(url) == HostStr(normalize(url))

(***************************************************************************)
(* The indices are functions from keys to sequences of tags                *)
(* (HashMap<String, Vec<String>>, HashMap<Url, Vec<String>>).              *)
(***************************************************************************)
EmptyIndex == [k \in {} |-> <<>>]

\* HashMap::get
Get(index, key) == IF key \in DOMAIN index THEN Some(index[key]) ELSE None

\* an insertion that keeps a category name once per key
InsertOnce(index, key, name) ==
    [k \in DOMAIN index \cup {key} |->
        IF k = key
        THEN (IF key \notin DOMAIN index THEN <<name>>
              ELSE IF name \in Range(index[key]) THEN index[key]
              ELSE Append(index[key], name))
        ELSE index[k]]

\* entry(key).and_modify(|v| v.push(name)).or_insert_with(|| vec![name])
Insert(index, key, name) ==
    [k \in DOMAIN index \cup {key} |->
        IF k = key
        THEN (IF key \in DOMAIN index THEN Append(index[key], name) ELSE <<name>>)
        ELSE index[k]]

(***************************************************************************)
(* Detection.                                                              *)
(***************************************************************************)
IndexOf(n) == [i \in 1..n |-> i]

\* the positions of the dots of a domain, in increasing order
SepPositions(domain) ==
    LET IsDot(i) == domain[i] = "."
    IN  SelectSeq(IndexOf(Len(domain)), IsDot)

\* the separator positions kept whole: the top-level label is tested too
PopNothing(seq) == seq

\* Vec::pop: the sequence without its last element (unchanged when empty)
Pop(seq) == IF seq = <<>> THEN <<>> ELSE SubSeq(seq, 1, Len(seq) - 1)

\* a search that tests the string after every character, separator or not
SuffixesAtEveryChar(domain, sep_positions) ==
    [n \in 1..(Len(domain) - 1) |-> From(domain, n + 1)]

\* the string tested at each separator position: from one past it to the end
SuffixesAt(domain, sep_positions) ==
    [n \in 1..Len(sep_positions) |-> From(domain, sep_positions[n] + 1)]

\* the suffixes detect_subdomains looks up, in the order it tests them
SuffixesTested(domain) == SuffixesAt(domain, Pop(SepPositions(domain)))

\* a search that stops at the first (longest) suffix that is a key
FlattenFirstMatch(domains, to_test) ==
    IF {m \in 1..Len(to_test) : to_test[m] \in DOMAIN domains} = {} THEN {}
    ELSE Range(domains[to_test[Min({m \in 1..Len(to_test) : to_test[m] \in DOMAIN domains})]])

\* the tags of every tested suffix that is a key, flattened into one set
Flatten(domains, to_test) ==
    UNION {Range(domains[to_test[n]]) :
              n \in {m \in 1..Len(to_test) : to_test[m] \in DOMAIN domains}}

\* a result that is Some even when nothing was collected
SomeAlways(categories) == Some(categories)

\* None when the set is empty, Some(set) otherwise
NoneIfEmpty(categories) == IF categories = {} THEN None ELSE Some(categories)

\* Blocklist::detect_subdomains
detect_subdomains(domains, domain) == NoneIfEmpty(Flatten(domains, SuffixesTested(domain)))

\* detections.extend(tags.iter()) for an optional Vec of tags
ExtendVec(opt) == IF opt.some THEN Range(opt.val) ELSE {}

\* detections.extend(&tags) for an optional HashSet of tags
ExtendSet(opt) == IF opt.some THEN opt.val ELSE {}

\* the subdomain search alone, without the lookup of the full domain
DomainDetectionsSubdomainsOnly(domains, domain) ==
    IF ~domain.ok THEN {}
    ELSE ExtendSet(detect_subdomains(domains, domain.val))

\* the tags detect collects from the domain index: the full domain, then the subdomains
DomainDetections(domains, domain) ==
    IF ~domain.ok THEN {}
    ELSE ExtendVec(Get(domains, domain.val)) \cup ExtendSet(detect_subdomains(domains, domain.val))

\* the tags detect collects from the URL index
UrlDetections(urls, url) ==
    IF ~url.ok THEN {} ELSE ExtendVec(Get(urls, url.val))

\* a detect that returns as soon as the domain index gave something
detectEarlyReturn(domains, urls, url) ==
    IF DomainDetections(domains, normalize_domain(url)) # {}
    THEN Some(DomainDetections(domains, normalize_domain(url)))
    ELSE NoneIfEmpty(UrlDetections(urls, normalize_url(url)))

\* a detect that gives up when the candidate has no domain
detectDomainRequired(domains, urls, url) ==
    IF ~normalize_domain(url).ok THEN None
    ELSE NoneIfEmpty(DomainDetections(domains, normalize_domain(url))
                     \cup UrlDetections(urls, normalize_url(url)))

\* Blocklist::detect
detect(domains, urls, url) ==
    NoneIfEmpty(DomainDetections(domains, normalize_domain(url))
                \cup UrlDetections(urls, normalize_url(url)))

(***************************************************************************)
(* The single-category matcher (blocklist.rs): the lines of the two files  *)
(* of one category, kept as they are read, and queried with a parsed Url.  *)
(***************************************************************************)
\* the lines of one kind of file among the lines read, as a HashSet<String>
Collect(lines, kind, file) ==
    {lines[i].line : i \in {j \in 1..Len(lines) : lines[j].cat = kind /\ lines[j].file = file}}

\* Blocklist::with_folder, single-category, on the lines the directory holds
with_folder(kind, lines) ==
    [kind |-> kind,
     domains |-> Collect(lines, kind, "domains"),
     urls |-> Collect(lines, kind, "urls")]

\* Blocklist::detect_domain, single-category
detect_domain(bl, u) == u.hasHost /\ u.host \in bl.domains

\* the serialization of a parsed URL from Position::BeforeHost to Position::AfterPath
HostThroughPath(u) ==
    u.host \o (IF u.port = <<>> THEN <<>> ELSE <<":">> \o u.port) \o u.path

\* Blocklist::detect_url, single-category
detect_url(bl, u) == HostThroughPath(u) \in bl.urls

(***************************************************************************)
(* The strings the model draws its inputs from.  "b.c" plays the part of   *)
(* blogspot.com and foo.bar, "a.b.c" of adultblog.blogspot.com, "ab.c" of  *)
(* a domain that only shares characters with "b.c", "/p" of /baz.          *)
(***************************************************************************)
hC == <<"c">>

hBC == <<"b", ".", "c">>

hABC == <<"a", ".", "b", ".", "c">>

hDABC == <<"d", ".", "a", ".", "b", ".", "c">>

hAB_C == <<"a", "b", ".", "c">>

hUpperBC == <<"B", ".", "c">>

hBCdot == <<"a", ".", "b", ".", "c", ".">>

pP == <<"/", "p">>

pPQ == <<"/", "p", "/", "q">>

qX == <<"?", "x">>

fY == <<"#", "y">>

uMailto == <<"m", "a", "i", "l", "t", "o", ":", "a", "@", "b", ".", "c">>

uOpaque == <<"f", "o", "o", ":", "/", "/", "B", ".", "c", "/", "p">>

uPort == <<"b", ".", "c", ":", "8", "0">>

uHttp == <<"h", "t", "t", "p", ":", "/", "/", "b", ".", "c", "/", "p">>

uUser == HttpsPrefix \o <<"u", "@", "b", ".", "c", ":", "4", "4", "3", "/", "p">>

\* the candidates detect is called with
Candidates ==
    {hC, hBC, hABC, hAB_C, hUpperBC, hBCdot,
     HttpsPrefix \o hDABC \o pP, HttpsPrefix \o hABC \o pP,
     HttpsPrefix \o hBC \o pP, HttpsPrefix \o hUpperBC \o pP,
     hBC \o pP, hBC \o pP \o qX \o fY, hBC \o pPQ,
     HttpsPrefix \o hBC, HttpsPrefix \o hBC \o pP \o qX,
     uHttp, uUser, uMailto, uMailto \o qX, uOpaque, uPort, <<>>, fY}

\* the lines a domains or urls file may hold
RawLines == {hBC, hABC, hBC \o pP, uMailto, <<>>}

\* the category names: the sub-directories of the blocklist directory
Categories == {"blog", "adult"}

\* the most lines one build reads
MaxLines == 2

(***************************************************************************)
(* The engines a caller hands to Blocklist::new.                           *)
(***************************************************************************)
kBCp == HttpsPrefix \o hBC \o pP

\* tests::subdomains
EngineSubdomains ==
    [domains |-> (hBC :> <<"blog">>) @@ (hABC :> <<"adult">>), urls |-> EmptyIndex]

\* the single-category test data: foo.bar and foo.bar/baz under "adult"
EngineFooBar ==
    [domains |-> (hBC :> <<"adult">>), urls |-> (kBCp :> <<"adult">>)]

\* a key listed twice by one category, and a URL key sharing a tag with it
EngineDuplicates ==
    [domains |-> (hBC :> <<"blog", "blog">>), urls |-> (kBCp :> <<"adult", "blog">>)]

\* a key holding no tag, and a top-level label as a key
EngineEmptyTags ==
    [domains |-> (hBC :> <<>>) @@ (hC :> <<"blog">>), urls |-> EmptyIndex]

\* keys that are not in normalized form: an upper-case domain, a URL with a query
EngineRawKeys ==
    [domains |-> (hUpperBC :> <<"blog">>), urls |-> ((kBCp \o qX) :> <<"adult">>)]

\* only URL keys, one of them without a host
EngineUrlsOnly ==
    [domains |-> EmptyIndex, urls |-> (uMailto :> <<"adult">>) @@ (kBCp :> <<"blog">>)]

CallerEngines ==
    {EngineSubdomains, EngineFooBar, EngineDuplicates, EngineEmptyTags,
     EngineRawKeys, EngineUrlsOnly}

(***************************************************************************)
(* State.                                                                  *)
(***************************************************************************)
VARIABLES
    pc,        \* "start", "building", "built" or "failed" (from_dir returned Err)
    domains,   \* Blocklist.domains
    urls,      \* Blocklist.urls
    stage,     \* from_dir: "dir" (between entries), "domains" or "urls"
    bl_name,   \* from_dir: the category being read
    seen,      \* from_dir: the directory entries already yielded by read_dir
    listed,    \* the lines read so far, in order: [cat, file, line]
    called,    \* whether the caller's query has been made
    url,       \* detect: its argument
    domain,    \* detect: the result of normalize_domain(url)
    norm_url,  \* detect: the result of normalize_url(url)
    ret,       \* detect: its result
    th,        \* per querying thread: where it is in detect, and detect's locals
    returned   \* per candidate, the results the threads' calls have returned so far

vars ==
    <<pc, domains, urls, stage, bl_name, seen, listed,
      called, url, domain, norm_url, ret, th, returned>>

buildVars == <<stage, bl_name, seen, listed>>

callVars == <<called, url, domain, norm_url, ret>>

threadVars == <<th, returned>>

\* the threads that share one built engine
NumThreads == 2

Threads == 1..NumThreads

\* the candidates the threads query
ThreadUrls == {hABC, HttpsPrefix \o hBC \o pP, uMailto, <<>>}

Idle == [pc |-> "idle", url |-> <<>>, detections |-> {}, ret |-> None]

Init ==
    /\ pc = "start"
    /\ domains = EmptyIndex
    /\ urls = EmptyIndex
    /\ stage = "dir"
    /\ bl_name = ""
    /\ seen = {}
    /\ listed = <<>>
    /\ called = FALSE
    /\ url = <<>>
    /\ domain = Err("none")
    /\ norm_url = Err("none")
    /\ ret = None
    /\ th = [t \in Threads |-> Idle]
    /\ returned = [c \in ThreadUrls |-> {}]

(***************************************************************************)
(* Construction.                                                           *)
(***************************************************************************)
\* Blocklist::new
New(e) ==
    /\ pc = "start"
    /\ pc' = "built"
    /\ domains' = e.domains
    /\ urls' = e.urls
    /\ UNCHANGED <<buildVars, callVars, threadVars>>

\* from_dir: read_dir succeeded, both maps are created empty
FromDir ==
    /\ pc = "start"
    /\ pc' = "building"
    /\ domains' = EmptyIndex
    /\ urls' = EmptyIndex
    /\ stage' = "dir"
    /\ UNCHANGED <<bl_name, seen, listed, callVars, threadVars>>

\* from_dir: the next directory entry
NextEntry(name) ==
    /\ pc = "building" /\ stage = "dir"
    /\ name \notin seen
    /\ bl_name' = name
    /\ seen' = seen \cup {name}
    /\ stage' = "domains"
    /\ UNCHANGED <<pc, domains, urls, listed, callVars, threadVars>>

\* a build that stores the raw line when it cannot normalize it
AfterDomainLineKeepRaw(index, name, line) ==
    IF normalize_domain(line).ok
    THEN Insert(index, normalize_domain(line).val, name)
    ELSE Insert(index, line, name)

\* the index after one line of a domains file: a line that fails to normalize adds nothing
AfterDomainLine(index, name, line) ==
    LET d == normalize_domain(line)
    IN  IF d.ok THEN Insert(index, d.val, name) ELSE index

\* the index after one line of a urls file
AfterUrlLine(index, name, line) ==
    LET u == normalize_url(line)
    IN  IF u.ok THEN Insert(index, u.val, name) ELSE index

\* from_dir: one line of the category's domains file
DomainLine(line) ==
    /\ pc = "building" /\ stage = "domains"
    /\ Len(listed) < MaxLines
    /\ domains' = AfterDomainLine(domains, bl_name, line)
    /\ listed' = Append(listed, [cat |-> bl_name, file |-> "domains", line |-> line])
    /\ UNCHANGED <<pc, urls, stage, bl_name, seen, callVars, threadVars>>

\* from_dir: the domains file is exhausted, or there is none
DomainsDone ==
    /\ pc = "building" /\ stage = "domains"
    /\ stage' = "urls"
    /\ UNCHANGED <<pc, domains, urls, bl_name, seen, listed, callVars, threadVars>>

\* from_dir: one line of the category's urls file
UrlLine(line) ==
    /\ pc = "building" /\ stage = "urls"
    /\ Len(listed) < MaxLines
    /\ urls' = AfterUrlLine(urls, bl_name, line)
    /\ listed' = Append(listed, [cat |-> bl_name, file |-> "urls", line |-> line])
    /\ UNCHANGED <<pc, domains, stage, bl_name, seen, callVars, threadVars>>

\* from_dir: the urls file is exhausted, or there is none
UrlsDone ==
    /\ pc = "building" /\ stage = "urls"
    /\ stage' = "dir"
    /\ UNCHANGED <<pc, domains, urls, bl_name, seen, listed, callVars, threadVars>>

\* from_dir: the directory is exhausted, Ok(Self { domains, urls })
Finish ==
    /\ pc = "building" /\ stage = "dir"
    /\ pc' = "built"
    /\ UNCHANGED <<domains, urls, buildVars, callVars, threadVars>>

\* from_dir: read_dir, a directory entry or File::open fails, the error is returned
IoError ==
    /\ \/ pc = "start"
       \/ pc = "building" /\ Len(listed) < MaxLines
    /\ pc' = "failed"
    /\ UNCHANGED <<domains, urls, buildVars, callVars, threadVars>>

(***************************************************************************)
(* Queries.                                                                *)
(***************************************************************************)
\* Blocklist::detect on the built engine.  One query is recorded per behaviour:
\* a query leaves the engine as it found it, so a later one starts from the same
\* state (repeated and interleaved queries are the subject of SpecThreads)
Detect(candidate) ==
    /\ pc = "built"
    /\ ~called
    /\ called' = TRUE
    /\ url' = candidate
    /\ domain' = normalize_domain(candidate)
    /\ norm_url' = normalize_url(candidate)
    /\ ret' = detect(domains, urls, candidate)
    /\ UNCHANGED <<pc, domains, urls, buildVars, threadVars>>

(***************************************************************************)
(* Concurrent queries: each thread runs detect on the shared engine, one   *)
(* step per part of the function, so that the calls interleave.            *)
(***************************************************************************)
\* a detect that starts from what the thread's previous call collected
ThreadCallKeepDetections(t, candidate) ==
    /\ th[t].pc \in {"idle", "done"}
    /\ th' = [th EXCEPT ![t].pc = "domain", ![t].url = candidate, ![t].ret = None]
    /\ UNCHANGED <<pc, domains, urls, buildVars, callVars, returned>>

\* detect is entered: let mut detections = HashSet::new()
ThreadCall(t, candidate) ==
    /\ th[t].pc \in {"idle", "done"}
    /\ th' = [th EXCEPT ![t] = [pc |-> "domain", url |-> candidate,
                                detections |-> {}, ret |-> None]]
    /\ UNCHANGED <<pc, domains, urls, buildVars, callVars, returned>>

\* a detect that stores what it found under the candidate's domain
ThreadDomainStepCaching(t) ==
    /\ th[t].pc = "domain"
    /\ th' = [th EXCEPT ![t].pc = "url",
                        ![t].detections =
                            @ \cup DomainDetections(domains, normalize_domain(th[t].url))]
    /\ domains' = IF normalize_domain(th[t].url).ok
                  THEN Insert(domains, normalize_domain(th[t].url).val, "cached")
                  ELSE domains
    /\ UNCHANGED <<pc, urls, buildVars, callVars, returned>>

\* detect: the domain index, full domain then subdomains
ThreadDomainStep(t) ==
    /\ th[t].pc = "domain"
    /\ th' = [th EXCEPT ![t].pc = "url",
                        ![t].detections =
                            @ \cup DomainDetections(domains, normalize_domain(th[t].url))]
    /\ UNCHANGED <<pc, domains, urls, buildVars, callVars, returned>>

\* detect: the URL index
ThreadUrlStep(t) ==
    /\ th[t].pc = "url"
    /\ th' = [th EXCEPT ![t].pc = "return",
                        ![t].detections =
                            @ \cup UrlDetections(urls, normalize_url(th[t].url))]
    /\ UNCHANGED <<pc, domains, urls, buildVars, callVars, returned>>

\* detect returns None or Some(detections)
ThreadReturn(t) ==
    /\ th[t].pc = "return"
    /\ th' = [th EXCEPT ![t].pc = "done", ![t].ret = NoneIfEmpty(th[t].detections)]
    /\ returned' = [returned EXCEPT ![th[t].url] = @ \cup {NoneIfEmpty(th[t].detections)}]
    /\ UNCHANGED <<pc, domains, urls, buildVars, callVars>>

Next ==
    \/ \E e \in CallerEngines : New(e)
    \/ FromDir
    \/ \E name \in Categories : NextEntry(name)
    \/ \E line \in RawLines : DomainLine(line)
    \/ DomainsDone
    \/ \E line \in RawLines : UrlLine(line)
    \/ UrlsDone
    \/ Finish
    \/ IoError
    \/ \E candidate \in Candidates : Detect(candidate)

Spec == Init /\ [][Next]_vars

\* an engine built by Blocklist::new and shared by the threads
InitThreads ==
    /\ pc = "built"
    /\ \E e \in CallerEngines : domains = e.domains /\ urls = e.urls
    /\ stage = "dir"
    /\ bl_name = ""
    /\ seen = {}
    /\ listed = <<>>
    /\ called = FALSE
    /\ url = <<>>
    /\ domain = Err("none")
    /\ norm_url = Err("none")
    /\ ret = None
    /\ th = [t \in Threads |-> Idle]
    /\ returned = [c \in ThreadUrls |-> {}]

NextThreads ==
    \/ \E t \in Threads, candidate \in ThreadUrls : ThreadCall(t, candidate)
    \/ \E t \in Threads : ThreadDomainStep(t)
    \/ \E t \in Threads : ThreadUrlStep(t)
    \/ \E t \in Threads : ThreadReturn(t)

SpecThreads == InitThreads /\ [][NextThreads]_vars

(***************************************************************************)
(* What the properties speak about, stated on the strings themselves and   *)
(* not through the search of detect_subdomains.                            *)
(***************************************************************************)
\* the positions of the label separators of a domain
Dots(d) == {i \in 1..Len(d) : d[i] = "."}

\* d with one or more leading labels stripped
AncestorSuffixes(d) == {From(d, i + 1) : i \in Dots(d)}

\* the ancestor suffixes that still have two labels or more
StrictAncestors(d) == {s \in AncestorSuffixes(d) : "." \in Range(s)}

\* what follows the last label separator of a domain that has one
TopLabel(d) == From(d, Max(Dots(d)) + 1)

\* an index without one of its keys
Without(index, key) == [k \in DOMAIN index \ {key} |-> index[k]]

\* the keys of the domain index among the strict ancestors of the queried domain
MatchingAncestors ==
    IF domain.ok THEN StrictAncestors(domain.val) \cap DOMAIN domains ELSE {}

\* the tags attached to the key equal to the queried domain
ExactTags ==
    IF domain.ok /\ domain.val \in DOMAIN domains THEN Range(domains[domain.val]) ELSE {}

\* the tags attached to the keys that are strict ancestors of the queried domain
AncestorTags == UNION {Range(domains[s]) : s \in MatchingAncestors}

\* the tags attached to the key equal to the queried URL
UrlTags ==
    IF norm_url.ok /\ norm_url.val \in DOMAIN urls THEN Range(urls[norm_url.val]) ELSE {}

DomainMatched == domain.ok /\ (domain.val \in DOMAIN domains \/ MatchingAncestors # {})

UrlMatched == norm_url.ok /\ norm_url.val \in DOMAIN urls

\* a string without its query string and fragment
StripQueryFragment(s) == UpTo(s, FirstIn(s, {"?", "#"}) - 1)

C2_TopLabelNeverMatches ==
    (called /\ domain.ok /\ Dots(domain.val) # {}) =>
        /\ \A n \in 1..Len(SuffixesTested(domain.val)) :
              SuffixesTested(domain.val)[n] # TopLabel(domain.val)
        /\ ret = detect(Without(domains, TopLabel(domain.val)), urls, url)

\* the top-level label is a key with a tag, and the query found nothing
C2_Witness ==
    /\ called
    /\ domain.ok /\ Dots(domain.val) # {}
    /\ TopLabel(domain.val) \in DOMAIN domains
    /\ domains[TopLabel(domain.val)] # <<>>
    /\ ~ret.some

(***************************************************************************)
(* C3.  As claimed: for every key d of the domain index, detect(d) returns *)
(* Some set that includes the tags of d.  This fails for a key handed to   *)
(* Blocklist::new that is not in normalized form ("B.c"), and for a key    *)
(* without tags.                                                           *)
(***************************************************************************)
C3_EveryKeyGivesSome ==
    (called /\ url \in DOMAIN domains) =>
        ret.some /\ Range(domains[url]) \subseteq ret.val

\* C3, amended: for every key d of the domain index that normalize_domain maps
\* to itself, detect(d) includes the tags of d, and is Some whenever d holds a tag.
C3_ExactCompleteness ==
    (called /\ url \in DOMAIN domains /\ domain = Ok(url)) =>
        /\ Range(domains[url]) \subseteq ret.val
        /\ (domains[url] # <<>> => ret.some)

\* an engine built by from_dir, queried with one of its keys
C3_Witness ==
    /\ called
    /\ listed # <<>>
    /\ url \in DOMAIN domains /\ domain = Ok(url)
    /\ ret = Some(Range(domains[url]))

(***************************************************************************)
(* C4.  On every built engine detect has a result for every candidate,     *)
(* None or Some of a non-empty set of tags; the result of a call is None   *)
(* exactly when no lookup gave a tag.                                      *)
(***************************************************************************)
C4_NoneOrNonEmpty ==
    /\ (pc = "built" /\ ~called) =>
          \A c \in Candidates :
              detect(domains, urls, c) \in {None} \cup {Some(S) : S \in SUBSET Categories \ {{}}}
    /\ called =>
          /\ \/ ret = None
             \/ ret.some /\ ret.val # {} /\ ret.val \subseteq Categories
          /\ (ret = None <=> ExactTags \cup AncestorTags \cup UrlTags = {})

\* both normalizers fail, on an engine one of whose keys has no tag
C4_Witness ==
    /\ called
    /\ ~domain.ok /\ ~norm_url.ok
    /\ \E k \in DOMAIN domains : domains[k] = <<>>
    /\ ret = None

(***************************************************************************)
(* C5.  When the candidate matches in the domain index and in the URL      *)
(* index, the result is the set of the tags of all the matching keys, each *)
(* tag once; foo.bar and foo.bar/baz, both "adult", give {"adult"}.        *)
(***************************************************************************)
C5_MergeBothIndices ==
    /\ (called /\ DomainMatched /\ UrlMatched) =>
          /\ ret.val = ExactTags \cup AncestorTags \cup UrlTags
          /\ Cardinality(ret.val) = Cardinality(ExactTags \cup AncestorTags \cup UrlTags)
          /\ (ret.val # {} => ret.some)
    /\ (called /\ domains = EngineFooBar.domains /\ urls = EngineFooBar.urls /\ url = kBCp) =>
          ret = Some({"adult"})

\* a tag found in both indices, stored twice under one key, and a tag found in one only
C5_Witness ==
    /\ called /\ DomainMatched /\ UrlMatched
    /\ ExactTags \cap UrlTags # {}
    /\ UrlTags \ ExactTags # {}
    /\ Len(domains[domain.val]) > Cardinality(ExactTags)
    /\ ret = Some(ExactTags \cup UrlTags)

(***************************************************************************)
(* C6.  When normalize_domain fails and normalize_url gives a key of the   *)
(* URL index, the tags of that key are in the result; when it gives no key *)
(* the result is None; when normalize_url fails, the matches of the domain *)
(* index are still in the result.                                          *)
(***************************************************************************)
C6_OneFailureKeepsTheOther ==
    called =>
        /\ (~domain.ok /\ UrlMatched) =>
              /\ Range(urls[norm_url.val]) \subseteq ret.val
              /\ (urls[norm_url.val] # <<>> => ret.some)
        /\ (~domain.ok /\ ~UrlMatched) => ret = None
        /\ (~norm_url.ok /\ domain.ok) => ExactTags \cup AncestorTags \subseteq ret.val

\* a candidate without host ("mailto:a@b.c") found in the URL index
C6_Witness ==
    /\ called
    /\ domain = Err("NoHostname")
    /\ UrlMatched
    /\ ret = Some(Range(urls[norm_url.val]))

(***************************************************************************)
(* C7.  Two calls of detect with the same candidate on the same engine     *)
(* return the same result, whatever calls happened in between.             *)
(***************************************************************************)
C7_SameCandidateSameResult ==
    /\ \A c \in ThreadUrls : Cardinality(returned[c]) <= 1
    /\ \A t1, t2 \in Threads :
          (th[t1].pc = "done" /\ th[t2].pc = "done" /\ th[t1].url = th[t2].url)
              => th[t1].ret = th[t2].ret

\* two threads returned from a call with the same candidate, after other calls
C7_Witness ==
    /\ \E t1, t2 \in Threads :
          /\ t1 # t2
          /\ th[t1].pc = "done" /\ th[t2].pc = "done"
          /\ th[t1].url = th[t2].url
          /\ th[t1].ret.some
          /\ \E c \in ThreadUrls : c # th[t1].url /\ returned[c] # {}

(***************************************************************************)
(* C8.  No step of a query changes the domain index or the URL index, and  *)
(* every call, however the threads interleave, returns what detect returns *)
(* on the engine when run alone.                                           *)
(***************************************************************************)
C8_ReadOnlyEngine ==
    /\ [][domains' = domains /\ urls' = urls]_vars
    /\ [](\A t \in Threads :
            th[t].pc = "done" => th[t].ret = detect(domains, urls, th[t].url))

\* one thread has returned while another is in the middle of its call
C8_Witness ==
    \E t1, t2 \in Threads :
        /\ th[t1].pc = "done" /\ th[t1].ret.some
        /\ th[t2].pc = "url" /\ th[t2].detections # {}
        /\ th[t1].url # th[t2].url

(***************************************************************************)
(* C9.  A step of the build that reads a line that fails to normalize      *)
(* leaves both indices as they were and the build running; a step that     *)
(* reads a line that normalizes, even after lines that failed, puts its    *)
(* key in the index with the category as the last tag.                     *)
(***************************************************************************)
LineFails(e) ==
    IF e.file = "domains" THEN ~normalize_domain(e.line).ok ELSE ~normalize_url(e.line).ok

C9_BestEffortBuild ==
    [][Len(listed') = Len(listed) + 1 =>
          /\ pc' = "building"
          /\ LineFails(listed'[Len(listed')]) => (domains' = domains /\ urls' = urls)
          /\ (~LineFails(listed'[Len(listed')]) /\ listed'[Len(listed')].file = "domains") =>
                /\ normalize_domain(listed'[Len(listed')].line).val \in DOMAIN domains'
                /\ domains'[normalize_domain(listed'[Len(listed')].line).val]
                       [Len(domains'[normalize_domain(listed'[Len(listed')].line).val])]
                   = listed'[Len(listed')].cat
                /\ urls' = urls
          /\ (~LineFails(listed'[Len(listed')]) /\ listed'[Len(listed')].file = "urls") =>
                /\ normalize_url(listed'[Len(listed')].line).val \in DOMAIN urls'
                /\ urls'[normalize_url(listed'[Len(listed')].line).val]
                       [Len(urls'[normalize_url(listed'[Len(listed')].line).val])]
                   = listed'[Len(listed')].cat
                /\ domains' = domains
    ]_vars

\* a build that returned an engine after a line that failed and one, later, that did not
C9_Witness ==
    /\ pc = "built"
    /\ Len(listed) = 2
    /\ LineFails(listed[1]) /\ ~LineFails(listed[2])
    /\ listed[1].file = "domains" /\ listed[2].file = "domains"
    /\ DOMAIN domains = {normalize_domain(listed[2].line).val}
    /\ urls = EmptyIndex

(***************************************************************************)
(* C10.  The key normalize_url gives holds no query string and no          *)
(* fragment; a candidate gets the key and the result of detect of the same *)
(* string without its query string and fragment, so that strings that      *)
(* differ only in these get the same key and the same result; "b.c/p?x#y"  *)
(* gets the key of "https://b.c/p".                                        *)
(***************************************************************************)
C10_QueryFragmentIrrelevant ==
    called =>
        /\ norm_url.ok => Range(norm_url.val) \cap {"?", "#"} = {}
        /\ normalize_url(StripQueryFragment(url)) = norm_url
        /\ detect(domains, urls, StripQueryFragment(url)) = ret
        /\ url = hBC \o pP \o qX \o fY =>
              /\ norm_url = Ok(kBCp)
              /\ norm_url = normalize_url(kBCp)

\* the candidate with query string and fragment, found under the key of the plain URL
C10_Witness ==
    /\ called
    /\ url = hBC \o pP \o qX \o fY
    /\ norm_url = Ok(kBCp)
    /\ kBCp \in DOMAIN urls
    /\ ret.some /\ Range(urls[kBCp]) \subseteq ret.val

(***************************************************************************)
(* C11.  As claimed: an input that is a bare host, optionally followed by  *)
(* a port, a path, a query or a fragment, normalizes successfully to the   *)
(* key of the same input with "https://" prepended; the retry is made only *)
(* when the input does not parse as it is, and MalformedUrl is returned    *)
(* only when both parses fail.  This fails for a host followed by a port:  *)
(* "b.c:80" parses as it is, with the scheme "b.c" and no host.            *)
(***************************************************************************)
\* s from its first ':' '/' '?' '#' on
AfterBareHost(s) == From(s, FirstIn(s, {":", "/", "?", "#"}))

\* the digits between a leading ':' and the path, query or fragment
BarePort(rest) == SubSeq(rest, 2, FirstIn(rest, {"/", "?", "#"}) - 1)

\* a host name, then possibly a port, with no scheme in front
BareHost(s) ==
    /\ FirstIn(s, {":", "/", "?", "#"}) > 1
    /\ Range(UpTo(s, FirstIn(s, {":", "/", "?", "#"}) - 1)) \subseteq HostChars \cup UpperCase
    /\ AfterBareHost(s) # <<>> /\ AfterBareHost(s)[1] = ":" =>
          /\ BarePort(AfterBareHost(s)) # <<>>
          /\ Range(BarePort(AfterBareHost(s))) \subseteq Digits

C11_SchemesOptional ==
    called =>
        /\ BareHost(url) =>
              /\ domain.ok /\ norm_url.ok
              /\ domain = normalize_domain(HttpsPrefix \o url)
              /\ norm_url = normalize_url(HttpsPrefix \o url)
        /\ UrlParse(url).ok => normalize(url) = UrlParse(url)
        /\ domain.err = "MalformedUrl" =>
              ~UrlParse(url).ok /\ ~UrlParse(HttpsPrefix \o url).ok
        /\ url = hBC => domain = Ok(hBC)

\* the host with a port: no host name found, while the prefixed input has one
C11_Witness ==
    /\ called
    /\ url = uPort
    /\ BareHost(url)
    /\ UrlParse(url).ok
    /\ domain = Err("NoHostname")
    /\ normalize_domain(HttpsPrefix \o url) = Ok(hBC)
    /\ norm_url = Ok(uPort)
    /\ normalize_url(HttpsPrefix \o url) = Ok(HttpsPrefix \o uPort \o <<"/">>)

(***************************************************************************)
(* C12.  As claimed: when the single-category matcher built from the lines *)
(* of a category reports a URL present (detect_domain or detect_url), the  *)
(* multi-category matcher built from the same lines returns a set that     *)
(* holds that category.  This fails for the urls line "b.c/p" and the URL  *)
(* "http://b.c/p": the single-category matcher compares host and path, the *)
(* multi-category one keys the line under "https://b.c/p".                 *)
(***************************************************************************)
\* the single-category matcher of a category finds the Url of the candidate
SinglePresent(kind) ==
    /\ UrlParse(url).ok
    /\ \/ detect_domain(with_folder(kind, listed), UrlParse(url))
       \/ detect_url(with_folder(kind, listed), UrlParse(url))

C12_MultiGeneralizesSingle ==
    called =>
        \A kind \in Categories :
            SinglePresent(kind) => ret.some /\ kind \in ret.val

\* the http URL of a listed host and path: present for the single-category
\* matcher, unknown to the multi-category one
C12_Witness ==
    /\ called
    /\ url = uHttp
    /\ url = Serialization(UrlParse(url))
    /\ \E kind \in Categories :
          /\ detect_url(with_folder(kind, listed), UrlParse(url))
          /\ ~detect_domain(with_folder(kind, listed), UrlParse(url))
          /\ kBCp \in DOMAIN urls /\ kind \in Range(urls[kBCp])
    /\ ret = None

(***************************************************************************)
(* C13.  While from_dir builds and after it, every key of the domain index *)
(* and of the URL index is the normalized form of a line read from a file  *)
(* of that kind, and its tags are the category names of the listings of    *)
(* the key, one per listing, in the order the lines were read: a key       *)
(* listed twice by one category holds the name twice.                      *)
(***************************************************************************)
\* the category names of a sequence of lines read
CatsOf(lines) == [i \in 1..Len(lines) |-> lines[i].cat]

\* the lines of the domains files read so far that normalize to a key
DomainListings(key) ==
    LET Lists(l) == l.file = "domains" /\ normalize_domain(l.line) = Ok(key)
    IN  SelectSeq(listed, Lists)

\* the lines of the urls files read so far that normalize to a key
UrlListings(key) ==
    LET Lists(l) == l.file = "urls" /\ normalize_url(l.line) = Ok(key)
    IN  SelectSeq(listed, Lists)

\* from_dir is building the engine, or has built it
BuiltFromDir == pc = "building" \/ seen # {}

\* a key was listed, and holds one category name per listing, in reading order
TagsAreListings(tags, listings) ==
    listings # <<>> /\ tags # <<>> /\ tags = CatsOf(listings)

\* stated on the states of the build and of the built engine before its query:
\* the query changes neither the indices nor the lines read
C13_IndexInvariant ==
    BuiltFromDir /\ ~called =>
        /\ \A key \in DOMAIN domains : TagsAreListings(domains[key], DomainListings(key))
        /\ \A key \in DOMAIN urls : TagsAreListings(urls[key], UrlListings(key))

\* "b.c" and "b.c/p" in the domains file of one category: one key, the name twice;
\* no key for the ancestor "c"
C13_Witness ==
    /\ pc = "built" /\ seen # {}
    /\ Len(listed) = 2
    /\ listed[1].line = hBC /\ listed[2].line = hBC \o pP
    /\ listed[1].file = "domains" /\ listed[2].file = "domains"
    /\ listed[1].cat = listed[2].cat
    /\ DOMAIN domains = {hBC}
    /\ domains[hBC] = <<listed[1].cat, listed[1].cat>>

(***************************************************************************)
(* C14.  Every tag detect returns is attached to the domain key equal to   *)
(* the normalized domain, to a domain key equal to the normalized domain   *)
(* cut just after a label separator other than the last, or to the URL key *)
(* equal to the normalized URL; when none of these is a key the result is  *)
(* None.  The key "b.c" gives nothing for the candidate "ab.c", and the    *)
(* URL key of "b.c/p" gives nothing for "b.c/p/q".                         *)
(***************************************************************************)
C14_NoSpuriousTags ==
    called =>
        /\ ret.some => ret.val \subseteq ExactTags \cup AncestorTags \cup UrlTags
        /\ ~DomainMatched /\ ~UrlMatched => ret = None
        /\ url = hAB_C /\ DOMAIN domains \subseteq {hBC, hC} /\ ~UrlMatched => ret = None
        /\ url = hBC \o pPQ /\ ~DomainMatched /\ DOMAIN urls \subseteq {kBCp} => ret = None

\* "b.c" is a key with a tag and ends the candidate "ab.c", not on a label boundary
C14_Witness ==
    /\ called
    /\ url = hAB_C
    /\ domain = Ok(hAB_C)
    /\ hBC \in DOMAIN domains /\ domains[hBC] # <<>>
    /\ From(domain.val, 2) = hBC
    /\ ret = None

====
